---- MODULE Spec2Model ----
(***************************************************************************)
(* Route normalization pipeline of boat-ride-api                           *)
(* (app/services/route_normalizer.py, app/utils/geo.py,                    *)
(* app/models/route_models.py).                                            *)
(*                                                                         *)
(* Arithmetic.  The program computes in binary floating point; the model   *)
(* computes the same expressions exactly, in fixed point: every distance   *)
(* and every latitude is an integer number of units, UnitsPerMetre units   *)
(* to the metre.  UnitsPerMetre is the divisor of pick_spacing_m, so that  *)
(* total / max(2, MAX_POINTS - 1) is exact for a route of whole metres.    *)
(* Rounding error of the floating-point operations is not modelled.        *)
(*                                                                         *)
(* Geometry.  Routes lie on one meridian (every point has longitude 0).    *)
(* There the haversine distance is the arc between the two                 *)
(* latitudes, r * |phi2 - phi1|, so with latitude measured in units of arc *)
(* it is |b_lat - a_lat|, and the initial bearing is 0 (north) or 180      *)
(* (south).  A point is the pair <<lon, lat>> of the code.                 *)
(***************************************************************************)
EXTENDS Integers, Sequences, FiniteSets, TLC

\* ------------------------------------------------------------ constants
DEFAULT_SPACING_M == 250
MAX_POINTS == 2500
MIN_ROUTE_M == 25
MAX_ROUTE_M == 500000
MAX_SEGMENT_M == 50000

Max2(a, b) == IF a >= b THEN a ELSE b
Abs(x) == IF x < 0 THEN -x ELSE x
Last(s) == s[Len(s)]

\* Fixed-point resolution: units per metre.
UnitsPerMetre == Max2(2, MAX_POINTS - 1)
M(metres) == metres * UnitsPerMetre

\* A point of the modelled meridian, longitude 0: the pair (lon, lat).
Pt(lat) == <<0, lat>>

\* spacing_m: float | None
None == <<>>
Some(x) == <<x>>

\* ------------------------------------------------------------ bounds
\* Longest raw coordinate list of the exhaustively enumerated short routes.
MaxRawPoints == 4
\* Most legs of a zigzag route of MAX_SEGMENT_M legs.
MaxLegs == 11
\* Iterations after which the target loop of resample_even_spacing is cut
\* (it does not terminate for a spacing <= 0).
MaxTargets == 2502

\* ------------------------------------------------------------ geo.py
\* Mutant: a distance floored at one unit, as a guard against dividing by a
\* zero segment length would.
haversine_m_floored(a_lon, a_lat, b_lon, b_lat) == Max2(1, Abs(b_lat - a_lat))

\* haversine_m on one meridian (a_lon = b_lon): the arc between the latitudes.
haversine_m(a_lon, a_lat, b_lon, b_lat) == Abs(b_lat - a_lat)

\* bearing_deg_true on one meridian: y = sin(0) * cos(phi2) = 0 and
\* x = sin(phi2 - phi1), so atan2(y, x) is 0 for x > 0, 180 for x < 0, and
\* atan2(0, 0) = 0 for identical points.
bearing_deg_true(a_lon, a_lat, b_lon, b_lat) ==
    IF b_lat > a_lat THEN 0 ELSE IF b_lat < a_lat THEN 180 ELSE 0

RECURSIVE polyline_from(_, _, _)
polyline_from(points_lonlat, i, total) ==
    IF i > Len(points_lonlat) THEN total
    ELSE polyline_from(points_lonlat, i + 1,
             total + haversine_m(points_lonlat[i - 1][1], points_lonlat[i - 1][2],
                                 points_lonlat[i][1], points_lonlat[i][2]))

polyline_length_m(points_lonlat) == polyline_from(points_lonlat, 2, 0)

SetMin(S) == CHOOSE x \in S : \A y \in S : x <= y
SetMax(S) == CHOOSE x \in S : \A y \in S : x >= y

bbox_wgs84(points_lonlat) ==
    LET lons == {points_lonlat[i][1] : i \in DOMAIN points_lonlat}
        lats == {points_lonlat[i][2] : i \in DOMAIN points_lonlat}
    IN  [min_lat |-> SetMin(lats), min_lon |-> SetMin(lons),
         max_lat |-> SetMax(lats), max_lon |-> SetMax(lons)]

\* ------------------------------------------------------------ guardrails
\* f"{x:.1f}": x rounded to a tenth of a metre, as a number of tenths.  No x
\* of the fixed point lies half way between two tenths (UnitsPerMetre is odd).
FormatTenths(x) ==
    (x \div UnitsPerMetre) * 10
        + ((x % UnitsPerMetre) * 10 + UnitsPerMetre \div 2) \div UnitsPerMetre

\* A ValueError: its kind and the number formatted into its message (0 when
\* the message holds none).  NoError while nothing was raised.
Raise(kind, tenths) == <<kind, tenths>>
NoError == <<"", 0>>
Passed == <<"ok", 0>>

\* The de-dupe loop of validate_route_guardrails.
RECURSIVE dedupe_from(_, _, _)
dedupe_from(points_lonlat, i, deduped) ==
    IF i > Len(points_lonlat) THEN deduped
    ELSE dedupe_from(points_lonlat, i + 1,
             IF points_lonlat[i] # Last(deduped)
             THEN Append(deduped, points_lonlat[i]) ELSE deduped)

dedupe_consecutive(points_lonlat) ==
    dedupe_from(points_lonlat, 2, <<points_lonlat[1]>>)

\* Mutant: a segment of exactly MAX_SEGMENT_M is refused.
RECURSIVE segment_sanity_ge(_, _)
segment_sanity_ge(deduped, i) ==
    IF i > Len(deduped) THEN Passed
    ELSE LET seg == haversine_m(deduped[i - 1][1], deduped[i - 1][2],
                                deduped[i][1], deduped[i][2])
         IN  IF seg <= 0 THEN Raise("DuplicatePointAdjacent", 0)
             ELSE IF seg >= M(MAX_SEGMENT_M)
                  THEN Raise("SegmentTooLong", FormatTenths(seg))
             ELSE segment_sanity_ge(deduped, i + 1)

\* The segment sanity loop: the first raise in the order of i, or Passed.
RECURSIVE segment_sanity(_, _)
segment_sanity(deduped, i) ==
    IF i > Len(deduped) THEN Passed
    ELSE LET seg == haversine_m(deduped[i - 1][1], deduped[i - 1][2],
                                deduped[i][1], deduped[i][2])
         IN  IF seg <= 0 THEN Raise("DuplicatePointAdjacent", 0)
             ELSE IF seg > M(MAX_SEGMENT_M)
                  THEN Raise("SegmentTooLong", FormatTenths(seg))
             ELSE segment_sanity(deduped, i + 1)

\* Mutant: the total length is checked before the segments.
validate_total_first(points_lonlat) ==
    LET deduped == dedupe_consecutive(points_lonlat)
    IN  IF Len(deduped) < 2 THEN Raise("RouteTooSparse", 0)
        ELSE LET sane == segment_sanity(deduped, 2)
                 total == polyline_length_m(deduped)
             IN  IF total < M(MIN_ROUTE_M)
                 THEN Raise("RouteTooShort", FormatTenths(total))
                 ELSE IF total > M(MAX_ROUTE_M)
                 THEN Raise("RouteTooLong", FormatTenths(total))
                 ELSE sane

\* validate_route_guardrails: the ValueError it raises, or Passed (it returns
\* None: the de-duplicated list is local to it).
validate_route_guardrails(points_lonlat) ==
    LET deduped == dedupe_consecutive(points_lonlat)
    IN  IF Len(deduped) < 2 THEN Raise("RouteTooSparse", 0)
        ELSE LET sane == segment_sanity(deduped, 2)
                 total == polyline_length_m(deduped)
             IN  IF sane # Passed THEN sane
                 ELSE IF total < M(MIN_ROUTE_M)
                 THEN Raise("RouteTooShort", FormatTenths(total))
                 ELSE IF total > M(MAX_ROUTE_M)
                 THEN Raise("RouteTooLong", FormatTenths(total))
                 ELSE Passed

\* ------------------------------------------------------------ spacing
\* Python's a // b (floor) for b of either sign.
FloorDiv(a, b) == IF b > 0 THEN a \div b ELSE (-a) \div (-b)

\* Mutant: the spacing is never widened.
pick_spacing_no_widen(total_distance_m, requested_spacing_m) ==
    IF requested_spacing_m = None \/ requested_spacing_m = Some(0)
    THEN M(DEFAULT_SPACING_M)
    ELSE requested_spacing_m[1]

\* pick_spacing_m: "requested_spacing_m or DEFAULT_SPACING_M" takes the
\* default for None and for 0.0, and keeps a negative request.
pick_spacing_m(total_distance_m, requested_spacing_m) ==
    LET spacing == IF requested_spacing_m = None \/ requested_spacing_m = Some(0)
                   THEN M(DEFAULT_SPACING_M)
                   ELSE requested_spacing_m[1]
    IN  IF total_distance_m <= 0 THEN spacing
        ELSE LET est_points == FloorDiv(total_distance_m, spacing) + 2
             IN  IF est_points <= MAX_POINTS THEN spacing
                 ELSE total_distance_m \div Max2(2, MAX_POINTS - 1)

\* ------------------------------------------------------------ resampler
\* segs of resample_even_spacing: (a_lon, a_lat, b_lon, b_lat, seg_len).
Segs(points_lonlat) ==
    [i \in 1 .. Len(points_lonlat) - 1 |->
        <<points_lonlat[i][1], points_lonlat[i][2],
          points_lonlat[i + 1][1], points_lonlat[i + 1][2],
          haversine_m(points_lonlat[i][1], points_lonlat[i][2],
                      points_lonlat[i + 1][1], points_lonlat[i + 1][2])>>]

RECURSIVE SumSegs(_, _)
SumSegs(segs, i) == IF i > Len(segs) THEN 0 ELSE segs[i][5] + SumSegs(segs, i + 1)

\* a + frac * (b - a) with frac = num / den.  On a meridian b - a is 0 (the
\* longitudes) or +-den (the latitudes), so (b - a) / den is exact.
Interpolate(a, b, num, den) == a + num * ((b - a) \div den)

\* The condition of the target loop: while d < total.
TargetLoopCond(d, total) == d < total

\* Mutant: the cursor also leaves a segment that ends exactly at t.
CursorLoopCond_le(segs, seg_idx, seg_start_cum, t) ==
    seg_idx < Len(segs) /\ seg_start_cum + segs[seg_idx + 1][5] <= t

\* The condition of the cursor loop (seg_idx counts from 0, as in the code).
CursorLoopCond(segs, seg_idx, seg_start_cum, t) ==
    seg_idx < Len(segs) /\ seg_start_cum + segs[seg_idx + 1][5] < t

\* The <<lon, lat>> emitted for target t with the cursor at seg_idx.
EmitLonLat(segs, seg_idx, seg_start_cum, t) ==
    IF seg_idx >= Len(segs)
    THEN <<Last(segs)[3], Last(segs)[4]>>
    ELSE LET s == segs[seg_idx + 1]
         IN  IF s[5] = 0 THEN <<s[3], s[4]>>
             ELSE <<Interpolate(s[1], s[3], t - seg_start_cum, s[5]),
                    Interpolate(s[2], s[4], t - seg_start_cum, s[5])>>

\* Mutant: seg_dist_m measured from the start of the cursor's segment.
EmitTuple_from_segment(segs, seg_idx, seg_start_cum, t, out, last_cum) ==
    LET ll == EmitLonLat(segs, seg_idx, seg_start_cum, t)
    IN  <<ll[2], ll[1], IF out = <<>> THEN 0 ELSE t - seg_start_cum, t>>

\* The tuple (lat, lon, seg_dist_m, cum_dist_m) appended to out.
EmitTuple(segs, seg_idx, seg_start_cum, t, out, last_cum) ==
    LET ll == EmitLonLat(segs, seg_idx, seg_start_cum, t)
    IN  <<ll[2], ll[1], IF out = <<>> THEN 0 ELSE t - last_cum, t>>

\* ------------------------------------------------------------ normalizer
\* The arguments of the calls of bearing_deg_true in normalize_raw_route.
BearingCalls(samples) ==
    [i \in 1 .. Len(samples) - 1 |->
        <<samples[i][2], samples[i][1], samples[i + 1][2], samples[i + 1][1]>>]

Bearings(samples) ==
    LET calls == BearingCalls(samples)
        b == [i \in DOMAIN calls |->
                 bearing_deg_true(calls[i][1], calls[i][2], calls[i][3], calls[i][4])]
    IN  IF b # <<>> THEN Append(b, Last(b)) ELSE <<0>>

\* pts: NormalizedPoint(i = i, ...) over enumerate(samples), i from 0.
NormalizedPoints(samples) ==
    LET bearings == Bearings(samples)
    IN  [k \in DOMAIN samples |->
            [i |-> k - 1, lat |-> samples[k][1], lon |-> samples[k][2],
             seg_dist_m |-> samples[k][3], cum_dist_m |-> samples[k][4],
             bearing_deg_true |-> bearings[k]]]

NormalizedRouteBody(spacing, samples) ==
    LET pts == NormalizedPoints(samples)
    IN  [spacing_m |-> spacing,
         total_distance_m |-> Last(pts).cum_dist_m,
         point_count |-> Len(pts),
         bbox_wgs84 |-> bbox_wgs84([k \in DOMAIN pts |-> <<pts[k].lon, pts[k].lat>>]),
         points |-> pts]

\* The Field constraints of NormalizedPoint and NormalizedRouteBody and
\* NormalizedRouteBody.validate_point_count.
ModelValid(body) ==
    /\ body.spacing_m > 0
    /\ body.total_distance_m >= 0
    /\ body.point_count >= 2
    /\ body.point_count = Len(body.points)
    /\ Len(body.points) >= 2
    /\ \A k \in DOMAIN body.points :
          /\ body.points[k].i = k - 1
          /\ body.points[k].i >= 0
          /\ body.points[k].cum_dist_m >= 0
          /\ body.points[k].seg_dist_m >= 0
          /\ body.points[k].bearing_deg_true >= 0
          /\ body.points[k].bearing_deg_true < 360

\* ------------------------------------------------------------ state
VARIABLES
    raw,            \* raw.geometry.coordinates, the <<lon, lat>> pairs
    spacing_m,      \* the spacing_m argument: None or Some(units)
    pc,             \* position in normalize_raw_route / resample_even_spacing
    err,            \* the error raised, NoError while none
    total,          \* total of resample_even_spacing
    spacing,        \* the spacing selected by pick_spacing_m
    targets,        \* targets of resample_even_spacing
    d,              \* d of the target loop
    ti,             \* index in targets of the target being processed (from 1)
    out,            \* out of resample_even_spacing
    seg_idx,        \* the segment cursor (from 0)
    seg_start_cum,  \* cumulative distance at the cursor's segment start
    last_cum,       \* last_cum of resample_even_spacing
    result          \* <<>> or <<the NormalizedRouteBody returned>>

vars == <<raw, spacing_m, pc, err, total, spacing, targets, d, ti, out,
          seg_idx, seg_start_cum, last_cum, result>>

\* ------------------------------------------------------------ inputs
\* Latitudes (metres of arc) of the short routes.
ShortLatsM == {0, 24, 25, 125, 375}

SeqsOver(S, n) == [1 .. n -> S]

ShortRoutes ==
    UNION {{[i \in 1 .. n |-> Pt(M(f[i]))] : f \in SeqsOver(ShortLatsM, n)}
              : n \in 2 .. MaxRawPoints}

\* Routes of two or three points with long segments.
JumpLatsM == {0, MAX_SEGMENT_M, MAX_SEGMENT_M + 1, 600000}

JumpRoutes ==
    UNION {{[i \in 1 .. n |-> Pt(M(f[i]))] : f \in SeqsOver(JumpLatsM, n)}
              : n \in 2 .. 3}

\* n legs of MAX_SEGMENT_M each, back and forth, then a tail of tailM metres.
ZigZag(n, tailM) ==
    LET legs == [i \in 1 .. n + 1 |->
                    Pt(IF i % 2 = 1 THEN 0 ELSE M(MAX_SEGMENT_M))]
    IN  IF tailM = 0 THEN legs
        ELSE Append(legs, Pt(Last(legs)[2] + (IF n % 2 = 0 THEN M(tailM) ELSE -M(tailM))))

ZigZagRoutes == {ZigZag(n, tl) : n \in 1 .. MaxLegs, tl \in {0, 1}}

ShortSpacings == {None, Some(0), Some(M(100)), Some(M(125))}
CoarseSpacings == {Some(M(25000)), Some(M(MAX_SEGMENT_M))}

\* Runs that reach the point cap or never leave the target loop.
LongRuns ==
    {<<ZigZag(10, 0), None>>, <<ZigZag(10, 0), Some(M(200))>>,
     <<<<Pt(0), Pt(M(25))>>, Some(25)>>, <<<<Pt(0), Pt(M(25))>>, Some(26)>>,
     <<<<Pt(0), Pt(M(375)), Pt(0)>>, Some(-M(250))>>,
     <<<<Pt(0), Pt(M(25))>>, Some(-1)>>}

Inputs ==
    (ShortRoutes \X ShortSpacings) \cup (JumpRoutes \X {None})
        \cup (ZigZagRoutes \X CoarseSpacings) \cup LongRuns

\* ------------------------------------------------------------ actions
Init ==
    /\ \E in \in Inputs : raw = in[1] /\ spacing_m = in[2]
    /\ pc = "start"
    /\ err = NoError
    /\ total = 0
    /\ spacing = 0
    /\ targets = <<>>
    /\ d = 0
    /\ ti = 0
    /\ out = <<>>
    /\ seg_idx = 0
    /\ seg_start_cum = 0
    /\ last_cum = 0
    /\ result = <<>>

\* normalize_raw_route up to the call of resample_even_spacing.
Guardrails ==
    /\ pc = "start"
    /\ LET v == validate_route_guardrails(raw)
       IN  IF v # Passed
           THEN /\ pc' = "error"
                /\ err' = v
                /\ UNCHANGED spacing
           ELSE /\ pc' = "resample"
                /\ err' = err
                /\ spacing' = pick_spacing_m(polyline_length_m(raw), spacing_m)
    /\ UNCHANGED <<raw, spacing_m, total, targets, d, ti, out, seg_idx,
                   seg_start_cum, last_cum, result>>

\* resample_even_spacing up to the target loop.
BeginResample ==
    /\ pc = "resample"
    /\ LET tot == SumSegs(Segs(raw), 1)
       IN  IF tot = 0
           THEN /\ pc' = "error"
                /\ err' = Raise("ZeroLengthRoute", 0)
                /\ UNCHANGED <<total, targets, d>>
           ELSE /\ pc' = "targets"
                /\ err' = err
                /\ total' = tot
                /\ targets' = <<0>>
                /\ d' = spacing
    /\ UNCHANGED <<raw, spacing_m, spacing, ti, out, seg_idx, seg_start_cum,
                   last_cum, result>>

\* One iteration of "while d < total".
AppendTarget ==
    /\ pc = "targets"
    /\ TargetLoopCond(d, total)
    /\ Len(targets) < MaxTargets
    /\ targets' = Append(targets, d)
    /\ d' = d + spacing
    /\ UNCHANGED <<raw, spacing_m, pc, err, total, spacing, ti, out, seg_idx,
                   seg_start_cum, last_cum, result>>

\* Mutant: the total is not appended as the final target.
FinishTargets_no_final ==
    /\ pc = "targets"
    /\ ~TargetLoopCond(d, total)
    /\ targets' = targets
    /\ out' = <<>>
    /\ seg_idx' = 0
    /\ seg_start_cum' = 0
    /\ last_cum' = 0
    /\ ti' = 1
    /\ pc' = "emit"
    /\ UNCHANGED <<raw, spacing_m, err, total, spacing, d, result>>

\* The end of the target loop, the final target and the cursor's start.
FinishTargets ==
    /\ pc = "targets"
    /\ ~TargetLoopCond(d, total)
    /\ targets' = IF Last(targets) # total THEN Append(targets, total) ELSE targets
    /\ out' = <<>>
    /\ seg_idx' = 0
    /\ seg_start_cum' = 0
    /\ last_cum' = 0
    /\ ti' = 1
    /\ pc' = "emit"
    /\ UNCHANGED <<raw, spacing_m, err, total, spacing, d, result>>

\* One iteration of the cursor loop for the current target.
AdvanceCursor ==
    /\ pc = "emit"
    /\ ti <= Len(targets)
    /\ CursorLoopCond(Segs(raw), seg_idx, seg_start_cum, targets[ti])
    /\ seg_start_cum' = seg_start_cum + Segs(raw)[seg_idx + 1][5]
    /\ seg_idx' = seg_idx + 1
    /\ UNCHANGED <<raw, spacing_m, pc, err, total, spacing, targets, d, ti, out,
                   last_cum, result>>

\* Mutant: a target whose position repeats the previous point emits nothing.
EmitPoint_skip_repeat ==
    /\ pc = "emit"
    /\ ti <= Len(targets)
    /\ ~CursorLoopCond(Segs(raw), seg_idx, seg_start_cum, targets[ti])
    /\ LET tup == EmitTuple(Segs(raw), seg_idx, seg_start_cum, targets[ti],
                            out, last_cum)
       IN  out' = IF out # <<>> /\ Last(out)[1] = tup[1] /\ Last(out)[2] = tup[2]
                  THEN out ELSE Append(out, tup)
    /\ last_cum' = targets[ti]
    /\ ti' = ti + 1
    /\ UNCHANGED <<raw, spacing_m, pc, err, total, spacing, targets, d, seg_idx,
                   seg_start_cum, result>>

\* The rest of the body of "for t in targets".
EmitPoint ==
    /\ pc = "emit"
    /\ ti <= Len(targets)
    /\ ~CursorLoopCond(Segs(raw), seg_idx, seg_start_cum, targets[ti])
    /\ out' = Append(out, EmitTuple(Segs(raw), seg_idx, seg_start_cum,
                                    targets[ti], out, last_cum))
    /\ last_cum' = targets[ti]
    /\ ti' = ti + 1
    /\ UNCHANGED <<raw, spacing_m, pc, err, total, spacing, targets, d, seg_idx,
                   seg_start_cum, result>>

\* normalize_raw_route after resample_even_spacing returned.
Assemble ==
    /\ pc = "emit"
    /\ ti > Len(targets)
    /\ LET body == NormalizedRouteBody(spacing, out)
       IN  IF ModelValid(body)
           THEN /\ pc' = "done"
                /\ err' = err
                /\ result' = <<body>>
           ELSE /\ pc' = "error"
                /\ err' = Raise("ValidationError", 0)
                /\ result' = result
    /\ UNCHANGED <<raw, spacing_m, total, spacing, targets, d, ti, out, seg_idx,
                   seg_start_cum, last_cum>>

Next ==
    \/ Guardrails
    \/ BeginResample
    \/ AppendTarget
    \/ FinishTargets
    \/ AdvanceCursor
    \/ EmitPoint
    \/ Assemble

Spec == Init /\ [][Next]_vars

\* ------------------------------------------------------------ direct calls
\* pick_spacing_m and resample_even_spacing called on their own, as
\* normalize_raw_route composes them but without the guardrails, so that
\* totals outside [MIN_ROUTE_M, MAX_ROUTE_M] are covered.
DirectTotalsM == {0, 1, 3, 250, 500, 624749, 624750, 625000}

DirectInputs ==
    ({<<Pt(0), Pt(M(x))>> : x \in DirectTotalsM} \X {None})
        \cup ({<<Pt(0), Pt(M(x))>> : x \in {1, 3}} \X {Some(2), Some(3), Some(4)})
        \cup ({<<Pt(0), Pt(M(x))>> : x \in {250, 500}} \X {Some(M(125)), Some(M(200))})
        \cup (ShortRoutes \X {None, Some(M(100)), Some(M(125))})
        \cup (ZigZagRoutes \X CoarseSpacings)

InitResample ==
    /\ \E in \in DirectInputs : raw = in[1] /\ spacing_m = in[2]
    /\ pc = "call"
    /\ err = NoError
    /\ total = 0
    /\ spacing = 0
    /\ targets = <<>>
    /\ d = 0
    /\ ti = 0
    /\ out = <<>>
    /\ seg_idx = 0
    /\ seg_start_cum = 0
    /\ last_cum = 0
    /\ result = <<>>

CallPick ==
    /\ pc = "call"
    /\ spacing' = pick_spacing_m(polyline_length_m(raw), spacing_m)
    /\ pc' = "resample"
    /\ UNCHANGED <<raw, spacing_m, err, total, targets, d, ti, out, seg_idx,
                   seg_start_cum, last_cum, result>>

\* "return out" of resample_even_spacing.
ReturnSamples ==
    /\ pc = "emit"
    /\ ti > Len(targets)
    /\ pc' = "returned"
    /\ UNCHANGED <<raw, spacing_m, err, total, spacing, targets, d, ti, out,
                   seg_idx, seg_start_cum, last_cum, result>>

NextResample ==
    \/ CallPick
    \/ BeginResample
    \/ AppendTarget
    \/ FinishTargets
    \/ AdvanceCursor
    \/ EmitPoint
    \/ ReturnSamples

SpecResample == InitResample /\ [][NextResample]_vars

\* ------------------------------------------------------------ whole runs
\* The loops above run to completion, as one call computes them.
RECURSIVE RunTargets(_, _, _, _)
RunTargets(tg, dd, sp, tot) ==
    IF TargetLoopCond(dd, tot) THEN RunTargets(Append(tg, dd), dd + sp, sp, tot)
    ELSE IF Last(tg) # tot THEN Append(tg, tot) ELSE tg

RECURSIVE RunEmit(_, _, _, _, _, _, _)
RunEmit(segs, tg, i, si, ssc, o, lc) ==
    IF i > Len(tg) THEN o
    ELSE IF CursorLoopCond(segs, si, ssc, tg[i])
         THEN RunEmit(segs, tg, i, si + 1, ssc + segs[si + 1][5], o, lc)
         ELSE RunEmit(segs, tg, i + 1, si, ssc,
                      Append(o, EmitTuple(segs, si, ssc, tg[i], o, lc)), tg[i])

resample_even_spacing(points_lonlat, sp) ==
    LET segs == Segs(points_lonlat)
    IN  RunEmit(segs, RunTargets(<<0>>, sp, sp, SumSegs(segs, 1)), 1, 0, 0, <<>>, 0)

\* The NormalizedRouteBody normalize_raw_route builds for a route that
\* passes the guardrails.
normalize_raw_route(points_lonlat, requested) ==
    LET sp == pick_spacing_m(polyline_length_m(points_lonlat), requested)
    IN  NormalizedRouteBody(sp, resample_even_spacing(points_lonlat, sp))

\* The widened spacing is a whole number of units: the fixed point is exact.
FixedPointExact ==
    (pc \notin {"start", "call", "error"} /\ spacing_m # None
        /\ spacing # M(DEFAULT_SPACING_M) /\ spacing # spacing_m[1])
      => spacing * Max2(2, MAX_POINTS - 1) = polyline_length_m(raw)

\* ------------------------------------------------------------ claims
GuardrailKinds ==
    {"RouteTooSparse", "DuplicatePointAdjacent", "SegmentTooLong",
     "RouteTooShort", "RouteTooLong"}

\* What validate_route_guardrails answered, once it has run.
GuardrailOutcome == IF err[1] \in GuardrailKinds THEN err ELSE <<"ok", 0>>

\* The route with every run of consecutive identical points collapsed to one,
\* stated on the indices kept rather than by the loop of the code.
KeptIdx(points) == {i \in DOMAIN points : i = 1 \/ points[i] # points[i - 1]}
Collapse(points) ==
    LET K == KeptIdx(points)
        nth(k) == CHOOSE i \in K : Cardinality({j \in K : j <= i}) = k
    IN  [k \in 1 .. Cardinality(K) |-> points[nth(k)]]

Dist(p, q) == haversine_m(p[1], p[2], q[1], q[2])

RECURSIVE PathLength(_, _)
PathLength(points, i) ==
    IF i >= Len(points) THEN 0
    ELSE Dist(points[i], points[i + 1]) + PathLength(points, i + 1)

TwoPointOverMax ==
    Len(raw) = 2 /\ raw[1] # raw[2] /\ Dist(raw[1], raw[2]) > M(MAX_ROUTE_M)

\* C1 (as stated): a two-point route whose total length exceeds 500,000 m
\* is rejected with RouteTooLong and no other guardrail error.
C1_TwoPointRouteTooLong ==
    (pc # "start" /\ TwoPointOverMax) => (pc = "error" /\ err[1] = "RouteTooLong")

\* C1 (amended): a two-point route whose total length exceeds 500,000 m is
\* rejected with SegmentTooLong: its single segment exceeds 50,000 m and the
\* segments are checked before the total.
C1_TwoPointSegmentTooLong ==
    (pc # "start" /\ TwoPointOverMax) => (pc = "error" /\ err[1] = "SegmentTooLong")

C1_Witness ==
    /\ pc = "error"
    /\ raw = <<Pt(0), Pt(M(600000))>>
    /\ err = <<"SegmentTooLong", 6000000>>

\* The number of tenths of a metre nearest to a length of x units: whole
\* metres, and the tenths nearest to the remainder.
Tenths(x) ==
    10 * (x \div UnitsPerMetre)
        + (CHOOSE m \in 0 .. 10 :
              2 * Abs(10 * (x % UnitsPerMetre) - UnitsPerMetre * m) < UnitsPerMetre)

\* The first failing check in the order of the claim with the length it
\* reports, or "ok".
C2_Expected(points) ==
    LET c == Collapse(points)
        n == Len(c)
        bad == {i \in 1 .. n - 1 :
                   Dist(c[i], c[i + 1]) = 0 \/ Dist(c[i], c[i + 1]) > M(MAX_SEGMENT_M)}
        first == CHOOSE i \in bad : \A j \in bad : i <= j
        tot == PathLength(c, 1)
    IN  IF n < 2 THEN <<"RouteTooSparse", 0>>
        ELSE IF bad # {}
             THEN (IF Dist(c[first], c[first + 1]) = 0
                   THEN <<"DuplicatePointAdjacent", 0>>
                   ELSE <<"SegmentTooLong", Tenths(Dist(c[first], c[first + 1]))>>)
        ELSE IF tot < M(MIN_ROUTE_M) THEN <<"RouteTooShort", Tenths(tot)>>
        ELSE IF tot > M(MAX_ROUTE_M) THEN <<"RouteTooLong", Tenths(tot)>>
        ELSE <<"ok", 0>>

\* C2: validate_route_guardrails answers the first failing check in the order
\* RouteTooSparse, then per adjacent pair DuplicatePointAdjacent or
\* SegmentTooLong, then RouteTooShort, then RouteTooLong, and accepts the route
\* exactly when no check fails (a segment of exactly 50,000 m and totals of
\* exactly 25 m and 500,000 m are accepted).
C2_FirstFailingCheck ==
    pc # "start" =>
        /\ GuardrailOutcome = C2_Expected(raw)
        /\ (GuardrailOutcome[1] # "ok") = (pc = "error")

\* Ten segments of exactly 50,000 m, 500,000 m in all, accepted and normalized.
C2_Witness ==
    /\ pc = "done"
    /\ Len(raw) = 11
    /\ PathLength(raw, 1) = M(MAX_ROUTE_M)
    /\ \A i \in 1 .. 10 : Dist(raw[i], raw[i + 1]) = M(MAX_SEGMENT_M)

\* C4 (as stated): for every spacing_m argument (absent, zero, negative or
\* positive) the spacing selected for a route that passed the guardrails is
\* strictly greater than 0.
C4_SelectedSpacingPositive ==
    pc \in {"resample", "targets", "emit", "done"} => spacing > 0

\* C9 (as stated): bearing_deg_true is never called with two identical points:
\* consecutive resampled points differ in longitude or latitude.
C9_BearingArgsDistinct ==
    pc = "done" =>
        \A i \in DOMAIN BearingCalls(out) :
            LET c == BearingCalls(out)[i]
            IN  c[1] # c[3] \/ c[2] # c[4]

\* The spacing requested of pick_spacing_m, or the default when none is.
C3_Requested == IF spacing_m = None THEN M(DEFAULT_SPACING_M) ELSE spacing_m[1]

\* C3: for a total > 0 and a positive requested (or the default) spacing,
\* pick_spacing_m returns total / 2499 when floor(total / spacing) + 2 exceeds
\* 2500 and the requested spacing otherwise, and resample_even_spacing then
\* builds at most 2501 targets and emits at most 2501 points.
C3_SpacingCap ==
    (pc # "call" /\ PathLength(raw, 1) > 0 /\ C3_Requested > 0) =>
        /\ IF (PathLength(raw, 1) \div C3_Requested) + 2 > 2500
           THEN spacing * 2499 = PathLength(raw, 1)
           ELSE spacing = C3_Requested
        /\ Len(targets) <= 2501
        /\ Len(out) <= 2501

\* A spacing widened to total / 2499 (here the default 250 m to 625,000 / 2499
\* m), and the target loop of resample_even_spacing running on it.
C3_Witness ==
    /\ pc = "targets"
    /\ spacing_m = None
    /\ PathLength(raw, 1) = M(625000)
    /\ spacing = 625000
    /\ targets = <<0, spacing, 2 * spacing>>

\* C5: in the NormalizedRoute returned, cum_dist_m is 0 at the first point,
\* non-decreasing, and at the last point equal to total_distance_m, the
\* polyline length of the input route; seg_dist_m is the difference of
\* consecutive cum_dist_m (0 for the first point) and never negative.
C5_CumulativeDistances ==
    pc = "done" =>
        LET body == result[1]
            p == body.points
        IN  /\ p[1].cum_dist_m = 0
            /\ p[1].seg_dist_m = 0
            /\ \A k \in 2 .. Len(p) :
                  /\ p[k].cum_dist_m >= p[k - 1].cum_dist_m
                  /\ p[k].seg_dist_m = p[k].cum_dist_m - p[k - 1].cum_dist_m
                  /\ p[k].seg_dist_m >= 0
            /\ p[Len(p)].cum_dist_m = body.total_distance_m
            /\ body.total_distance_m = PathLength(raw, 1)

\* A route of three segments normalized into more than three points.
C5_Witness ==
    /\ pc = "done"
    /\ Len(Collapse(raw)) = 4
    /\ Len(result[1].points) > 3
    /\ result[1].total_distance_m = PathLength(raw, 1)

\* C6: in the NormalizedRoute returned, points[k].i = k for every k (from 0),
\* point_count is the number of points, which is the number of resample
\* targets, and point_count is at least 2.
C6_ContiguousIndices ==
    pc = "done" =>
        LET body == result[1]
        IN  /\ \A k \in DOMAIN body.points : body.points[k].i = k - 1
            /\ body.point_count = Len(body.points)
            /\ Len(body.points) = Len(targets)
            /\ body.point_count >= 2

\* An out-and-back route whose targets 250 m and 500 m fall on one position.
C6_Witness ==
    /\ pc = "done"
    /\ raw = <<Pt(0), Pt(M(375)), Pt(0)>>
    /\ spacing_m = None
    /\ result[1].point_count = 4

\* C7: for a raw route with consecutive identical points, normalize_raw_route
\* produces the spacing, the points, the total distance and the point count it
\* produces for the route with every run of identical points collapsed.
C7_DedupEquivalence ==
    (pc = "done" /\ Collapse(raw) # raw) =>
        result[1] = normalize_raw_route(Collapse(raw), spacing_m)

\* Runs of identical points at the start, in the middle or at the end.
C7_Witness ==
    /\ pc = "done"
    /\ Len(raw) = 4
    /\ Len(Collapse(raw)) = 3
    /\ raw[2] = raw[3]
    /\ Len(result[1].points) >= 3

C10_CursorStep ==
    /\ (pc = "emit" /\ pc' = "emit") => seg_idx' >= seg_idx
    /\ (pc = "emit" /\ Len(out') = Len(out) + 1) =>
          LET t == targets[ti]
              segs == Segs(raw)
          IN  /\ seg_idx' = seg_idx
              /\ seg_idx < Len(segs)
              /\ seg_start_cum <= t
              /\ t <= seg_start_cum + segs[seg_idx + 1][5]

====
